---- MODULE Spec2Model ----
(***************************************************************************)
(* The books and authors routes of shelfshare's books-api.  The listing    *)
(* endpoint: the query-parameter parsing of BookHandler.ListBooks, the     *)
(* BookListParams descriptor it builds, the repository List operation and  *)
(* the page arithmetic of the response.  The single-book routes            *)
(* CreateBook, UpdateBook and DeleteBook with the repository operations    *)
(* they call, and the /authors routes of AuthorHandler.                    *)
(*                                                                         *)
(* Strings that the program parses (page, page_size, author_id, the date   *)
(* bounds, titles, the free-text query) are sequences of one-character     *)
(* strings, so that the parsers are modelled by what they do to the text.  *)
(***************************************************************************)
EXTENDS Integers, Sequences, FiniteSets, TLC

(***************************************************************************)
(* Bounds of the model.                                                    *)
(***************************************************************************)
\* number of books ever created through Create in one behaviour
MaxBooks == 2

\* largest page number and page size of the descriptors List is called with
\* directly
MaxPage == 2

MaxSize == 2

\* number of clients that send PATCH /books/:id requests at the same time
MaxClients == 2

(***************************************************************************)
(* Characters.                                                             *)
(***************************************************************************)
Digits == <<"0", "1", "2", "3", "4", "5", "6", "7", "8", "9">>

HexLower == <<"0", "1", "2", "3", "4", "5", "6", "7", "8", "9", "a", "b", "c", "d", "e", "f">>

HexUpper == <<"0", "1", "2", "3", "4", "5", "6", "7", "8", "9", "A", "B", "C", "D", "E", "F">>

\* the bytes that occur in the modelled texts, in ascending byte order
Alphabet == <<"-", "0", "1", "2", "3", "4", "5", "6", "7", "8", "9", "A", "B", "C", "D", "E", "F", "a", "b", "c", "d", "e", "f", "g", "x", "{", "}">>

IsDigit(c) == \E i \in 1..10 : Digits[i] = c

DigitVal(c) == (CHOOSE i \in 1..10 : Digits[i] = c) - 1

IsHex(c) == \E i \in 1..16 : HexLower[i] = c \/ HexUpper[i] = c

HexVal(c) == (CHOOSE i \in 1..16 : HexLower[i] = c \/ HexUpper[i] = c) - 1

CharCode(c) == CHOOSE i \in 1..Len(Alphabet) : Alphabet[i] = c

\* strings.ToLower on one byte (what a case-insensitive match compares)
ToLowerChar(c) == IF \E i \in 11..16 : HexUpper[i] = c THEN HexLower[CHOOSE i \in 11..16 : HexUpper[i] = c] ELSE c

ToLower(s) == [i \in 1..Len(s) |-> ToLowerChar(s[i])]

Rep(c, n) == [i \in 1..n |-> c]

(***************************************************************************)
(* strconv.Atoi, for texts of fewer than 19 bytes (the fast path): an      *)
(* optional sign, then one or more decimal digits.                         *)
(***************************************************************************)
RECURSIVE DecimalValue(_)
DecimalValue(s) == IF Len(s) = 0 THEN 0 ELSE DecimalValue(SubSeq(s, 1, Len(s) - 1)) * 10 + DigitVal(s[Len(s)])

Atoi(s) ==
  LET signed == Len(s) > 0 /\ (s[1] = "-" \/ s[1] = "+")
      body == IF signed THEN SubSeq(s, 2, Len(s)) ELSE s
      ok == Len(body) > 0 /\ \A i \in 1..Len(body) : IsDigit(body[i])
      n == IF ok THEN DecimalValue(body) ELSE 0
  IN  [ok |-> ok, val |-> IF ok /\ s[1] = "-" THEN 0 - n ELSE n]

(***************************************************************************)
(* uuid.Parse: the 36-byte form, the 38-byte form in braces (the first and *)
(* last byte are dropped unchecked), the 32-byte undashed form; any other  *)
(* length is an error.  The urn:uuid: form (45 bytes) is not among the     *)
(* inputs.  The value is the 16 bytes.                                     *)
(***************************************************************************)
NilUUID == <<>>

UUIDOffsets == <<1, 3, 5, 7, 10, 12, 15, 17, 20, 22, 25, 27, 29, 31, 33, 35>>

xtob(a, b) == [ok |-> IsHex(a) /\ IsHex(b), val |-> IF IsHex(a) /\ IsHex(b) THEN HexVal(a) * 16 + HexVal(b) ELSE 0]

ParseDashed(s) ==
  LET dashes == s[9] = "-" /\ s[14] = "-" /\ s[19] = "-" /\ s[24] = "-"
      ok == dashes /\ \A i \in 1..16 : xtob(s[UUIDOffsets[i]], s[UUIDOffsets[i] + 1]).ok
  IN  [ok |-> ok, val |-> IF ok THEN [i \in 1..16 |-> xtob(s[UUIDOffsets[i]], s[UUIDOffsets[i] + 1]).val] ELSE NilUUID]

ParseUndashed(s) ==
  LET ok == \A i \in 1..16 : xtob(s[2 * i - 1], s[2 * i]).ok
  IN  [ok |-> ok, val |-> IF ok THEN [i \in 1..16 |-> xtob(s[2 * i - 1], s[2 * i]).val] ELSE NilUUID]

uuidParse(s) ==
  CASE Len(s) = 36 -> ParseDashed(s)
    [] Len(s) = 38 -> ParseDashed(SubSeq(s, 2, 38))
    [] Len(s) = 32 -> ParseUndashed(s)
    [] OTHER -> [ok |-> FALSE, val |-> NilUUID]

(***************************************************************************)
(* time.Parse("2006-01-02", s): four digits, "-", two digits, "-", two     *)
(* digits and nothing more; the month is 1..12 and the day exists in that  *)
(* month of that year.  A date is the number year*10000 + month*100 + day, *)
(* which orders dates as the calendar does.  NilTime is the nil *time.Time.*)
(***************************************************************************)
NilTime == 0 - 1

IsLeap(y) == y % 4 = 0 /\ (y % 100 # 0 \/ y % 400 = 0)

daysIn(m, y) ==
  CASE m = 2 -> IF IsLeap(y) THEN 29 ELSE 28
    [] m \in {4, 6, 9, 11} -> 30
    [] OTHER -> 31

timeParse(s) ==
  LET shape == /\ Len(s) = 10
               /\ s[5] = "-" /\ s[8] = "-"
               /\ \A i \in {1, 2, 3, 4, 6, 7, 9, 10} : IsDigit(s[i])
      y == IF shape THEN DecimalValue(SubSeq(s, 1, 4)) ELSE 0
      m == IF shape THEN DecimalValue(SubSeq(s, 6, 7)) ELSE 0
      d == IF shape THEN DecimalValue(SubSeq(s, 9, 10)) ELSE 0
      ok == shape /\ m >= 1 /\ m <= 12 /\ d >= 1 /\ d <= daysIn(m, y)
  IN  [ok |-> ok, val |-> IF ok THEN y * 10000 + m * 100 + d ELSE NilTime]

(***************************************************************************)
(* Helpers of the handler package.                                         *)
(***************************************************************************)
\* parseIntQuery(c, key, def): s is c.Query(key)
parseIntQuery(s, def) == IF s # <<>> /\ Atoi(s).ok THEN Atoi(s).val ELSE def

\* a malformed date treated as an absent bound
parseDateQuery_lenient(s) == IF s # <<>> /\ timeParse(s).ok THEN [err |-> FALSE, val |-> timeParse(s).val] ELSE [err |-> FALSE, val |-> NilTime]

\* parseDateQuery(c, key): (nil, nil) for the empty text, (nil, err) for a
\* text time.Parse rejects, (&t, nil) otherwise
parseDateQuery(s) ==
  IF s = <<>> THEN [err |-> FALSE, val |-> NilTime]
  ELSE IF ~timeParse(s).ok THEN [err |-> TRUE, val |-> NilTime]
  ELSE [err |-> FALSE, val |-> timeParse(s).val]

(***************************************************************************)
(* model.Book rows and the BookListParams descriptor.                      *)
(***************************************************************************)
\* the two authors the stores are seeded with; their IDs are version-4
\* UUIDs, as uuid.New() in Author.BeforeCreate makes them:
\* aaaaaaaa-aaaa-4aaa-8aaa-aaaaaaaaaaaa and bbbbbbbb-bbbb-4bbb-8bbb-bbbbbbbbbbbb
AuthorA == [i \in 1..16 |-> IF i = 7 THEN 74 ELSE IF i = 9 THEN 138 ELSE 170]

AuthorB == [i \in 1..16 |-> IF i = 7 THEN 75 ELSE IF i = 9 THEN 139 ELSE 187]

\* a book as Create receives it: the ID and CreatedAt are still unset
BookInput(title, author, description, published) == [Title |-> title, AuthorID |-> author, Description |-> description, PublishedAt |-> published]

DefaultSort == "created_at_desc"

SortKeys == {"created_at_desc", "created_at_asc", "title_asc", "title_desc", "published_at_desc", "published_at_asc"}

NoParams == [Page |-> 0, PageSize |-> 0, Sort |-> "", Query |-> <<>>, AuthorID |-> NilUUID, PubAfter |-> NilTime, PubBefore |-> NilTime]

NoResult == [Books |-> <<>>, Total |-> 0, err |-> FALSE]

NoPagination == [page |-> 0, page_size |-> 0, total |-> 0, total_pages |-> 0]

NoResponse == [status |-> 0, code |-> "", message |-> "", data |-> <<>>, pagination |-> NoPagination]

NoRequest == [page |-> <<>>, page_size |-> <<>>, sort |-> [present |-> FALSE, value |-> ""], q |-> <<>>, author_id |-> <<>>, published_after |-> <<>>, published_before |-> <<>>]

\* the local model.Book of CreateBook before anything is assigned
NoBook == [ID |-> 0, Title |-> <<>>, AuthorID |-> NilUUID, Description |-> <<>>, PublishedAt |-> NilTime, CreatedAt |-> 0]

\* a JSON body without any field, and no request to a /books/... route
NoBody == [title |-> <<>>, author_id |-> <<>>, description |-> <<>>, published_at |-> <<>>]

NoBookRequest == [route |-> "", id |-> <<>>, body |-> NoBody]

\* a field of an UpdateBookRequest is a pointer: absent (nil), or given
\* with a text
Absent == [present |-> FALSE, value |-> <<>>]

Given(text) == [present |-> TRUE, value |-> text]

NoPatch == [title |-> Absent, author_id |-> Absent, description |-> Absent, published_at |-> Absent]

\* the local model.Author of UpdateAuthor before the author is read
NoAuthor == [ID |-> NilUUID, Books |-> {}]

\* the errors of the repository: nil, gorm.ErrRecordNotFound, the
\* *pgconn.PgError of a violated books.author_id foreign key (the has-many
\* Author.Books names the constraint fk_authors_books), a *pgconn.PgError
\* of another kind (query_canceled), and an error that is no PgError
NoError == [type |-> "nil", Code |-> "", ConstraintName |-> ""]

ErrRecordNotFound == [type |-> "gorm.ErrRecordNotFound", Code |-> "", ConstraintName |-> ""]

ErrForeignKey == [type |-> "PgError", Code |-> "23503", ConstraintName |-> "fk_authors_books"]

StorageErrors == {[type |-> "PgError", Code |-> "57014", ConstraintName |-> ""], [type |-> "error", Code |-> "", ConstraintName |-> ""]}

\* the clients that may each have one PATCH /books/:id request in progress
Clients == 1..MaxClients

\* the locals of an UpdateBook call that has not started
NoUpdate == [pc |-> "idle", id |-> <<>>, body |-> NoPatch, book |-> NoBook, repoErr |-> NoError, resp |-> NoResponse]

\* authors, books, nextID: the store.  pc, raw, params, listArgs, result,
\* resp: the listing request in progress and the response of the request in
\* progress.  req, book, repoErr: the request to a single-book route in
\* progress, the handler's local model.Book and the error of its last
\* repository call.  upd: the PATCH /books/:id requests in progress, one per
\* client, each with the locals of its UpdateBook call.  author: the local
\* model.Author of the UpdateAuthor call in progress.
VARIABLES authors, books, nextID, pc, raw, params, listArgs, result, resp, req, book, repoErr, upd, author

vars == <<authors, books, nextID, pc, raw, params, listArgs, result, resp, req, book, repoErr, upd, author>>

store == <<authors, books, nextID>>

request == <<pc, raw, params, listArgs, result, resp>>

listing == <<raw, params, listArgs, result>>

single == <<req, book, repoErr>>

others == <<upd, author>>

(***************************************************************************)
(* Repository: Create and Delete.                                          *)
(***************************************************************************)
\* Book.BeforeCreate gives a book without ID a fresh one; the row is
\* stamped with its creation time, and both are the creation counter here.
BeforeCreate(b) == [ID |-> nextID, Title |-> b.Title, AuthorID |-> b.AuthorID, Description |-> b.Description, PublishedAt |-> b.PublishedAt, CreatedAt |-> nextID]

\* an insert held back while a listing call is between its two storage
\* operations
Create_locked(b) ==
  /\ pc # "count"
  /\ nextID <= MaxBooks
  /\ b.AuthorID \in authors
  /\ books' = books \cup {BeforeCreate(b)}
  /\ nextID' = nextID + 1
  /\ UNCHANGED <<authors, request, single, others>>

Create(b) ==
  /\ nextID <= MaxBooks
  /\ b.AuthorID \in authors
  /\ books' = books \cup {BeforeCreate(b)}
  /\ nextID' = nextID + 1
  /\ UNCHANGED <<authors, request, single, others>>

\* RowsAffected == 0 is gorm.ErrRecordNotFound and nothing changes
Delete(id) ==
  /\ \E b \in books : b.ID = id
  /\ books' = {b \in books : b.ID # id}
  /\ UNCHANGED <<authors, nextID, request, single, others>>

(***************************************************************************)
(* Repository: List(ctx, params).  The filter predicate is built clause by *)
(* clause, each present filter narrowing the query; the rows are fetched   *)
(* ordered, offset and limited; the total is a count of the same filtered  *)
(* query.  The row fetch and the count are two storage operations.         *)
(***************************************************************************)
Contains(s, sub) == \E i \in 0..(Len(s) - Len(sub)) : SubSeq(s, i + 1, i + Len(sub)) = sub

\* case-insensitive substring match
ILike(text, q) == Contains(ToLower(text), ToLower(q))

\* the free-text filter matching the title only
WhereQuery_titleOnly(rows, p) == IF p.Query # <<>> THEN {b \in rows : ILike(b.Title, p.Query)} ELSE rows

WhereQuery(rows, p) == IF p.Query # <<>> THEN {b \in rows : ILike(b.Title, p.Query) \/ ILike(b.Description, p.Query)} ELSE rows

\* the author filter left out of the query
WhereAuthor_ignored(rows, p) == rows

WhereAuthor(rows, p) == IF p.AuthorID # NilUUID THEN {b \in rows : b.AuthorID = p.AuthorID} ELSE rows

\* a row without publication date satisfies no date comparison
WherePubAfter(rows, p) == IF p.PubAfter # NilTime THEN {b \in rows : b.PublishedAt # NilTime /\ b.PublishedAt >= p.PubAfter} ELSE rows

\* the upper bound excluding the boundary date
WherePubBefore_strict(rows, p) == IF p.PubBefore # NilTime THEN {b \in rows : b.PublishedAt # NilTime /\ b.PublishedAt < p.PubBefore} ELSE rows

WherePubBefore(rows, p) == IF p.PubBefore # NilTime THEN {b \in rows : b.PublishedAt # NilTime /\ b.PublishedAt <= p.PubBefore} ELSE rows

Filtered(rows, p) == WherePubBefore(WherePubAfter(WhereAuthor(WhereQuery(rows, p), p), p), p)

\* byte-wise lexical order of two texts
RECURSIVE TextLess(_, _)
TextLess(s, t) ==
  IF Len(t) = 0 THEN FALSE
  ELSE IF Len(s) = 0 THEN TRUE
  ELSE IF s[1] # t[1] THEN CharCode(s[1]) < CharCode(t[1])
  ELSE TextLess(Tail(s), Tail(t))

\* rows without publication date sort after every dated row ascending
DateLess(x, y) == IF x = NilTime THEN FALSE ELSE IF y = NilTime THEN TRUE ELSE x < y

\* title_desc ordering the rows as title_asc does
Before_titleDescAscending(b, c, sort) ==
  CASE sort = "created_at_asc" -> b.CreatedAt < c.CreatedAt
    [] sort = "title_asc" -> TextLess(b.Title, c.Title) \/ (b.Title = c.Title /\ b.ID < c.ID)
    [] sort = "title_desc" -> TextLess(b.Title, c.Title) \/ (b.Title = c.Title /\ b.ID < c.ID)
    [] sort = "published_at_asc" -> DateLess(b.PublishedAt, c.PublishedAt) \/ (b.PublishedAt = c.PublishedAt /\ b.ID < c.ID)
    [] sort = "published_at_desc" -> DateLess(c.PublishedAt, b.PublishedAt) \/ (b.PublishedAt = c.PublishedAt /\ b.ID < c.ID)
    [] OTHER -> b.CreatedAt > c.CreatedAt

\* b comes before c under the sort key; ties fall back to insertion order;
\* a key outside the enumeration orders as the default key does
Before(b, c, sort) ==
  CASE sort = "created_at_asc" -> b.CreatedAt < c.CreatedAt
    [] sort = "title_asc" -> TextLess(b.Title, c.Title) \/ (b.Title = c.Title /\ b.ID < c.ID)
    [] sort = "title_desc" -> TextLess(c.Title, b.Title) \/ (b.Title = c.Title /\ b.ID < c.ID)
    [] sort = "published_at_asc" -> DateLess(b.PublishedAt, c.PublishedAt) \/ (b.PublishedAt = c.PublishedAt /\ b.ID < c.ID)
    [] sort = "published_at_desc" -> DateLess(c.PublishedAt, b.PublishedAt) \/ (b.PublishedAt = c.PublishedAt /\ b.ID < c.ID)
    [] OTHER -> b.CreatedAt > c.CreatedAt

RECURSIVE OrderBy(_, _)
OrderBy(rows, sort) ==
  IF rows = {} THEN <<>>
  ELSE LET first == CHOOSE b \in rows : \A c \in rows \ {b} : Before(b, c, sort)
       IN  <<first>> \o OrderBy(rows \ {first}, sort)

\* the offset computed as page*pageSize
Offset_pageTimesSize(seq, p) ==
  LET off == p.Page * p.PageSize
  IN  IF off <= 0 THEN seq ELSE SubSeq(seq, off + 1, Len(seq))

\* offset = (page-1)*pageSize; an offset that is not positive skips nothing
Offset(seq, p) ==
  LET off == (p.Page - 1) * p.PageSize
  IN  IF off <= 0 THEN seq ELSE SubSeq(seq, off + 1, Len(seq))

\* the limit clause left out of the query
Limit_none(seq, p) == seq

\* limit = pageSize; a negative limit is no limit
Limit(seq, p) == IF p.PageSize < 0 THEN seq ELSE SubSeq(seq, 1, IF p.PageSize < Len(seq) THEN p.PageSize ELSE Len(seq))

PageRows(rows, p) == Limit(Offset(OrderBy(Filtered(rows, p), p.Sort), p), p)

\* the total taken from the page instead of the filtered query
CountRows_page(rows, p) == Len(PageRows(rows, p))

CountRows(rows, p) == Cardinality(Filtered(rows, p))

\* first storage operation of List: the row fetch (it may fail)
ListRows ==
  /\ pc = "rows"
  /\ \/ /\ result' = [Books |-> PageRows(books, params), Total |-> 0, err |-> FALSE]
        /\ pc' = "count"
     \/ /\ result' = [Books |-> <<>>, Total |-> 0, err |-> TRUE]
        /\ pc' = "ret"
  /\ UNCHANGED <<store, raw, params, listArgs, resp, single, others>>

\* second storage operation of List: the count (it may fail)
ListCount ==
  /\ pc = "count"
  /\ \/ result' = [result EXCEPT !.Total = CountRows(books, params)]
     \/ result' = [Books |-> <<>>, Total |-> 0, err |-> TRUE]
  /\ pc' = "ret"
  /\ UNCHANGED <<store, raw, params, listArgs, resp, single, others>>

(***************************************************************************)
(* Handler: BookHandler.ListBooks.                                         *)
(***************************************************************************)
DefaultPage == 1

DefaultPageSize == 20

MaxPageSize == 100

\* Go's integer division truncates toward zero
GoDiv(a, b) == IF (a >= 0) = (b > 0) THEN a \div b ELSE 0 - ((0 - a) \div b)

\* a page size above the maximum replaced by the default
ClampPageSize_default(pageSize) == IF pageSize > MaxPageSize THEN DefaultPageSize ELSE pageSize

ClampPageSize(pageSize) == IF pageSize > MaxPageSize THEN MaxPageSize ELSE pageSize

\* c.DefaultQuery(key, def): the default only when the key is absent
DefaultQuery(field, def) == IF field.present THEN field.value ELSE def

\* a malformed author_id treated as an absent filter
ParseAuthorID_lenient(s) == IF s # <<>> /\ uuidParse(s).ok THEN [err |-> FALSE, val |-> uuidParse(s).val] ELSE [err |-> FALSE, val |-> NilUUID]

\* the author_id block: uuid.Parse only for a non-empty text
ParseAuthorID(s) ==
  IF s # <<>> THEN IF ~uuidParse(s).ok THEN [err |-> TRUE, val |-> NilUUID] ELSE [err |-> FALSE, val |-> uuidParse(s).val]
  ELSE [err |-> FALSE, val |-> NilUUID]

writeError(status, code, message) == [status |-> status, code |-> code, message |-> message, data |-> <<>>, pagination |-> NoPagination]

\* the early returns with the date bounds looked at before the author_id
ValidationFailure_datesFirst(r) ==
  IF parseDateQuery(r.published_after).err THEN writeError(400, "INVALID_PUBLISHED_AFTER", "published_after must be in format YYYY-MM-DD")
  ELSE IF parseDateQuery(r.published_before).err THEN writeError(400, "INVALID_PUBLISHED_BEFORE", "published_before must be in format YYYY-MM-DD")
  ELSE IF ParseAuthorID(r.author_id).err THEN writeError(400, "INVALID_AUTHOR_ID", "author_id must be a valid UUID")
  ELSE NoResponse

\* the early returns of ListBooks, in the order of the code; NoResponse
\* when the request passes them all
ValidationFailure(r) ==
  IF ParseAuthorID(r.author_id).err THEN writeError(400, "INVALID_AUTHOR_ID", "author_id must be a valid UUID")
  ELSE IF parseDateQuery(r.published_after).err THEN writeError(400, "INVALID_PUBLISHED_AFTER", "published_after must be in format YYYY-MM-DD")
  ELSE IF parseDateQuery(r.published_before).err THEN writeError(400, "INVALID_PUBLISHED_BEFORE", "published_before must be in format YYYY-MM-DD")
  ELSE NoResponse

BuildParams(r) ==
  [Page |-> parseIntQuery(r.page, DefaultPage),
   PageSize |-> ClampPageSize(parseIntQuery(r.page_size, DefaultPageSize)),
   Sort |-> DefaultQuery(r.sort, DefaultSort),
   Query |-> r.q,
   AuthorID |-> ParseAuthorID(r.author_id).val,
   PubAfter |-> parseDateQuery(r.published_after).val,
   PubBefore |-> parseDateQuery(r.published_before).val]

\* page count by plain integer division
TotalPages_floor(total, pageSize) == IF pageSize > 0 THEN GoDiv(total, pageSize) ELSE 0

TotalPages(total, pageSize) == IF pageSize > 0 THEN GoDiv(total + pageSize - 1, pageSize) ELSE 0

toBookResponse(b) == [id |-> b.ID, title |-> b.Title, author |-> b.AuthorID, description |-> b.Description, published_at |-> b.PublishedAt, created_at |-> b.CreatedAt]

\* an empty page reported with empty totals
toListBooksResponse_emptyTotals(br, page, pageSize, total, totalPages) ==
  [status |-> 200, code |-> "", message |-> "", data |-> br,
   pagination |-> [page |-> page, page_size |-> pageSize, total |-> IF br = <<>> THEN 0 ELSE total, total_pages |-> IF br = <<>> THEN 0 ELSE totalPages]]

toListBooksResponse(br, page, pageSize, total, totalPages) ==
  [status |-> 200, code |-> "", message |-> "", data |-> br,
   pagination |-> [page |-> page, page_size |-> pageSize, total |-> total, total_pages |-> totalPages]]

\* a listing request that empties the store on entry
ListBooksBegin_resetting(r) ==
  /\ pc = "idle"
  /\ raw' = r
  /\ result' = NoResult
  /\ IF ValidationFailure(r) # NoResponse
     THEN /\ resp' = ValidationFailure(r)
          /\ params' = NoParams
          /\ listArgs' = <<>>
          /\ pc' = "done"
     ELSE /\ resp' = NoResponse
          /\ params' = BuildParams(r)
          /\ listArgs' = <<BuildParams(r)>>
          /\ pc' = "rows"
  /\ books' = {}
  /\ UNCHANGED <<authors, nextID, single, others>>

\* ListBooks up to the repository call: either an early 400, or the
\* descriptor is built and List is entered
ListBooksBegin(r) ==
  /\ pc = "idle"
  /\ raw' = r
  /\ result' = NoResult
  /\ IF ValidationFailure(r) # NoResponse
     THEN /\ resp' = ValidationFailure(r)
          /\ params' = NoParams
          /\ listArgs' = <<>>
          /\ pc' = "done"
     ELSE /\ resp' = NoResponse
          /\ params' = BuildParams(r)
          /\ listArgs' = <<BuildParams(r)>>
          /\ pc' = "rows"
  /\ UNCHANGED <<store, single, others>>

\* a failed List answered with 200 and whatever was fetched
ListBooksRespond_partial ==
  /\ pc = "ret"
  /\ resp' = toListBooksResponse([i \in 1..Len(result.Books) |-> toBookResponse(result.Books[i])], params.Page, params.PageSize, result.Total, TotalPages(result.Total, params.PageSize))
  /\ pc' = "done"
  /\ UNCHANGED <<store, raw, params, listArgs, result, single, others>>

\* ListBooks after List returned
ListBooksRespond ==
  /\ pc = "ret"
  /\ resp' = IF result.err THEN writeError(500, "BOOK_LIST_FAILED", "failed to fetch books")
             ELSE toListBooksResponse([i \in 1..Len(result.Books) |-> toBookResponse(result.Books[i])], params.Page, params.PageSize, result.Total, TotalPages(result.Total, params.PageSize))
  /\ pc' = "done"
  /\ UNCHANGED <<store, raw, params, listArgs, result, single, others>>

\* ListBooks returns: the request is over and the next one may arrive
ListBooksEnd ==
  /\ pc = "done"
  /\ pc' = "idle"
  /\ raw' = NoRequest
  /\ params' = NoParams
  /\ listArgs' = <<>>
  /\ result' = NoResult
  /\ resp' = NoResponse
  /\ UNCHANGED <<store, single, others>>

(***************************************************************************)
(* Inputs.                                                                 *)
(***************************************************************************)
\* cccccccc-cccc-4ccc-8ccc-cccccccccccc
UUIDText(c) == Rep(c, 8) \o <<"-">> \o Rep(c, 4) \o <<"-", "4">> \o Rep(c, 3) \o <<"-", "8">> \o Rep(c, 3) \o <<"-">> \o Rep(c, 12)

RawPages == {<<>>, <<"0">>, <<"-", "1">>, <<"2">>}

RawPageSizes == {<<>>, <<"x">>, <<"0">>, <<"-", "2">>, <<"2">>, <<"1", "0", "1">>}

RawSorts == {[present |-> FALSE, value |-> ""], [present |-> TRUE, value |-> "title_asc"], [present |-> TRUE, value |-> "bogus"]}

RawQueries == {<<>>, <<"a">>}

\* absent, author A in upper case, 36 bytes with bytes that are not hex, one byte
RawAuthorIDs == {<<>>, UUIDText("A"), UUIDText("g"), <<"x">>}

Date20200115 == <<"2", "0", "2", "0", "-", "0", "1", "-", "1", "5">>

\* absent, a date, the 30th of February
RawAfters == {<<>>, Date20200115, <<"2", "0", "2", "0", "-", "0", "2", "-", "3", "0">>}

\* absent, a date, day-month-year
RawBefores == {<<>>, Date20200115, <<"1", "5", "-", "0", "1", "-", "2", "0", "2", "0">>}

Requests == [page : RawPages, page_size : RawPageSizes, sort : RawSorts, q : RawQueries, author_id : RawAuthorIDs, published_after : RawAfters, published_before : RawBefores]

\* the book the behaviours of the server store (any number of times)
SeedBooks == {BookInput(<<"A", "b">>, AuthorA, <<>>, 20200115)}

(***************************************************************************)
(* The server: store writes interleaved with one listing request.          *)
(***************************************************************************)
Init ==
  /\ authors = {AuthorA, AuthorB}
  /\ books = {}
  /\ nextID = 1
  /\ pc = "idle"
  /\ raw = NoRequest
  /\ params = NoParams
  /\ listArgs = <<>>
  /\ result = NoResult
  /\ resp = NoResponse
  /\ req = NoBookRequest
  /\ book = NoBook
  /\ repoErr = NoError
  /\ upd = [c \in Clients |-> NoUpdate]
  /\ author = NoAuthor

Next ==
  \/ \E b \in SeedBooks : Create(b)
  \/ \E id \in 1..MaxBooks : Delete(id)
  \/ \E r \in Requests : ListBooksBegin(r)
  \/ ListRows
  \/ ListCount
  \/ ListBooksRespond
  \/ ListBooksEnd

Spec == Init /\ [][Next]_vars

(***************************************************************************)
(* The repository driven directly, as its tests drive it: books are        *)
(* seeded, List is called with a descriptor, and writes may land between   *)
(* the two storage operations of a call.                                   *)
(***************************************************************************)
\* title "Ab" by A on the bound date; "c" by B, matching "a" only in its
\* description, after the bound; "cd" by A before the bound; "b" by B
\* without publication date
RepoSeedBooks ==
  {BookInput(<<"A", "b">>, AuthorA, <<>>, 20200115),
   BookInput(<<"c">>, AuthorB, <<"b", "A">>, 20210301),
   BookInput(<<"c", "d">>, AuthorA, <<>>, 20191231),
   BookInput(<<"b">>, AuthorB, <<>>, NilTime)}

\* page sizes: one row, and the largest size
Descriptors == [Page : 1..MaxPage, PageSize : {1, MaxSize}, Sort : SortKeys, Query : {<<>>, <<"a">>}, AuthorID : {NilUUID, AuthorA}, PubAfter : {NilTime, 20200115}, PubBefore : {NilTime, 20200115}]

\* repo.List(ctx, params) called by a test
CallList(p) ==
  /\ pc = "idle"
  /\ params' = p
  /\ listArgs' = <<p>>
  /\ result' = NoResult
  /\ pc' = "rows"
  /\ UNCHANGED <<store, raw, resp, single, others>>

\* the call returned and the test has looked at the result
ListReturn ==
  /\ pc = "ret"
  /\ pc' = "idle"
  /\ params' = NoParams
  /\ listArgs' = <<>>
  /\ result' = NoResult
  /\ UNCHANGED <<store, raw, resp, single, others>>

NextRepo ==
  \/ \E b \in RepoSeedBooks : Create(b)
  \/ \E id \in 1..MaxBooks : Delete(id)
  \/ \E p \in Descriptors : CallList(p)
  \/ ListRows
  \/ ListCount
  \/ ListReturn

SpecRepo == Init /\ [][NextRepo]_vars

(***************************************************************************)
(* The single-book routes: POST /books (CreateBook) and DELETE /books/:id  *)
(* (DeleteBook).                                                           *)
(***************************************************************************)
\* uuid.UUID.String: the canonical lower-case text of the 16 bytes
uuidString(u) ==
  LET hex == [k \in 1..32 |-> HexLower[(IF k % 2 = 1 THEN u[(k + 1) \div 2] \div 16 ELSE u[k \div 2] % 16) + 1]]
  IN  SubSeq(hex, 1, 8) \o <<"-">> \o SubSeq(hex, 9, 12) \o <<"-">> \o SubSeq(hex, 13, 16) \o <<"-">> \o SubSeq(hex, 17, 20) \o <<"-">> \o SubSeq(hex, 21, 32)

\* the uuid4 rule of the validator on a text:
\* ^[0-9a-f]{8}-[0-9a-f]{4}-4[0-9a-f]{3}-[89ab][0-9a-f]{3}-[0-9a-f]{12}$
isUUID4(s) ==
  /\ Len(s) = 36
  /\ \A i \in 1..36 : IF i \in {9, 14, 19, 24} THEN s[i] = "-" ELSE \E k \in 1..16 : HexLower[k] = s[i]
  /\ s[15] = "4"
  /\ s[20] \in {"8", "9", "a", "b"}

\* the ID uuid.New() gives the n-th created book: a version-4 UUID
BookID(n) == [i \in 1..16 |-> IF i = 7 THEN 64 + n ELSE IF i = 9 THEN 128 + n ELSE n]

\* time.Parse("02-01-2006", s)
timeParseDMY(s) ==
  LET shape == /\ Len(s) = 10
               /\ s[3] = "-" /\ s[6] = "-"
               /\ \A i \in {1, 2, 4, 5, 7, 8, 9, 10} : IsDigit(s[i])
      d == IF shape THEN DecimalValue(SubSeq(s, 1, 2)) ELSE 0
      m == IF shape THEN DecimalValue(SubSeq(s, 4, 5)) ELSE 0
      y == IF shape THEN DecimalValue(SubSeq(s, 7, 10)) ELSE 0
      ok == shape /\ m >= 1 /\ m <= 12 /\ d >= 1 /\ d <= daysIn(m, y)
  IN  [ok |-> ok, val |-> IF ok THEN y * 10000 + m * 100 + d ELSE NilTime]

\* Date.UnmarshalJSON: the empty text is the zero time; otherwise the first
\* layout that parses.  Of dateLayouts only "2006-01-02" and "02-01-2006"
\* can parse a text of digits and "-" (the others need "/", a month name
\* or "T").
DateUnmarshalJSON(s) ==
  IF s = <<>> THEN [ok |-> TRUE, val |-> NilTime]
  ELSE IF timeParse(s).ok THEN timeParse(s)
  ELSE IF timeParseDMY(s).ok THEN timeParseDMY(s)
  ELSE [ok |-> FALSE, val |-> NilTime]

\* the author_id of a body as ShouldBindJSON decodes it: the zero UUID for
\* an absent field
BodyAuthorID(body) == IF body.author_id = <<>> THEN [ok |-> TRUE, val |-> NilUUID] ELSE uuidParse(body.author_id)

IsZeroUUID(u) == u = NilUUID \/ u = [i \in 1..16 |-> 0]

\* validation.BindAndValidateJSON on a CreateBookRequest: a field that does
\* not decode is INVALID_REQUEST_BODY; a decoded body that breaks a binding
\* rule (title required; author_id required, uuid4) is VALIDATION_ERROR;
\* NoResponse when the body binds.  The list of field errors is left out of
\* the response.
BindAndValidateJSON(body) ==
  IF ~BodyAuthorID(body).ok \/ ~DateUnmarshalJSON(body.published_at).ok
  THEN writeError(400, "INVALID_REQUEST_BODY", "invalid request body")
  ELSE IF body.title = <<>> \/ IsZeroUUID(BodyAuthorID(body).val) \/ ~isUUID4(uuidString(BodyAuthorID(body).val))
  THEN writeError(400, "VALIDATION_ERROR", "validation failed")
  ELSE NoResponse

\* the model.Book CreateBook builds from a bound request
NewBook(body) == BookInput(body.title, BodyAuthorID(body).val, body.description, DateUnmarshalJSON(body.published_at).val)

\* what the INSERT of repo.Create can come back with: the foreign key
\* rejects a book of an author that is not stored; the storage may fail
\* for reasons of its own
InsertOutcomes(b) == (IF b.AuthorID \in authors THEN {NoError} ELSE {ErrForeignKey}) \cup StorageErrors

\* every error of repo.Create answered as the generic failure
CreateErrorResponse_generic(err) == writeError(500, "BOOK_CREATE_FAILED", "failed to create book")

\* the error branch of CreateBook
CreateErrorResponse(err) ==
  IF err.type = "PgError" /\ err.Code = "23503" /\ err.ConstraintName = "fk_authors_books"
  THEN writeError(400, "AUTHOR_NOT_FOUND", "author does not exist")
  ELSE writeError(500, "BOOK_CREATE_FAILED", "failed to create book")

\* CreateBook up to and including repo.Create
CreateBookInsert(body) ==
  /\ pc = "idle"
  /\ req' = [route |-> "POST /books", id |-> <<>>, body |-> body]
  /\ IF BindAndValidateJSON(body) # NoResponse
     THEN /\ resp' = BindAndValidateJSON(body)
          /\ book' = NoBook
          /\ repoErr' = NoError
          /\ pc' = "done"
          /\ UNCHANGED store
     ELSE \E e \in InsertOutcomes(NewBook(body)) :
            /\ repoErr' = e
            /\ IF e = NoError
               THEN /\ nextID <= MaxBooks
                    /\ books' = books \cup {BeforeCreate(NewBook(body))}
                    /\ nextID' = nextID + 1
                    /\ book' = BeforeCreate(NewBook(body))
                    /\ resp' = NoResponse
                    /\ pc' = "fetch"
                    /\ UNCHANGED authors
               ELSE /\ book' = NoBook
                    /\ resp' = CreateErrorResponse(e)
                    /\ pc' = "done"
                    /\ UNCHANGED store
  /\ UNCHANGED <<listing, others>>

\* a failed read of the created book undoing the insert
CreateBookFetch_rollback ==
  /\ pc = "fetch"
  /\ \E e \in (IF \E b \in books : b.ID = book.ID THEN {NoError} ELSE {ErrRecordNotFound}) \cup StorageErrors :
       /\ repoErr' = e
       /\ resp' = IF e = NoError
                  THEN [status |-> 201, code |-> "", message |-> "", data |-> <<toBookResponse(CHOOSE b \in books : b.ID = book.ID)>>, pagination |-> NoPagination]
                  ELSE writeError(500, "BOOK_FETCH_FAILED", "failed to fetch created book")
       /\ books' = IF e = NoError THEN books ELSE books \ {book}
  /\ pc' = "done"
  /\ UNCHANGED <<authors, nextID, listing, req, book, others>>

\* CreateBook from repo.FindByID on: the created book is read back (it may
\* be gone, or the read may fail) and answered with 201
CreateBookFetch ==
  /\ pc = "fetch"
  /\ \E e \in (IF \E b \in books : b.ID = book.ID THEN {NoError} ELSE {ErrRecordNotFound}) \cup StorageErrors :
       /\ repoErr' = e
       /\ resp' = IF e = NoError
                  THEN [status |-> 201, code |-> "", message |-> "", data |-> <<toBookResponse(CHOOSE b \in books : b.ID = book.ID)>>, pagination |-> NoPagination]
                  ELSE writeError(500, "BOOK_FETCH_FAILED", "failed to fetch created book")
  /\ pc' = "done"
  /\ UNCHANGED <<store, listing, req, book, others>>

\* a DELETE that matched no row reported as success
DeleteError_silent(rowsAffected) == NoError

\* repo.Delete after a statement that ran: no row affected is
\* gorm.ErrRecordNotFound
DeleteError(rowsAffected) == IF rowsAffected = 0 THEN ErrRecordNotFound ELSE NoError

\* the error branch of DeleteBook, and 204 without error
DeleteResponse(err) ==
  IF err = NoError THEN [status |-> 204, code |-> "", message |-> "", data |-> <<>>, pagination |-> NoPagination]
  ELSE IF err = ErrRecordNotFound THEN writeError(404, "BOOK_NOT_FOUND", "book not found")
  ELSE writeError(500, "BOOK_DELETE_FAILED", "failed to delete book")

\* DeleteBook: the id is parsed, repo.Delete runs one DELETE statement
\* (which may fail as a whole) and the outcome is answered
DeleteBook(idText) ==
  /\ pc = "idle"
  /\ req' = [route |-> "DELETE /books/:id", id |-> idText, body |-> NoBody]
  /\ IF ~uuidParse(idText).ok
     THEN /\ resp' = writeError(400, "INVALID_BOOK_ID", "invalid book id")
          /\ repoErr' = NoError
          /\ UNCHANGED books
     ELSE \/ \E e \in StorageErrors :
               /\ repoErr' = e
               /\ resp' = DeleteResponse(e)
               /\ UNCHANGED books
          \/ LET rows == {b \in books : BookID(b.ID) = uuidParse(idText).val}
             IN  /\ books' = books \ rows
                 /\ repoErr' = DeleteError(Cardinality(rows))
                 /\ resp' = DeleteResponse(DeleteError(Cardinality(rows)))
  /\ pc' = "done"
  /\ UNCHANGED <<authors, nextID, listing, book, others>>

\* the handler returned: the request is over and the next one may arrive
HandlerReturn ==
  /\ pc = "done"
  /\ pc' = "idle"
  /\ req' = NoBookRequest
  /\ book' = NoBook
  /\ repoErr' = NoError
  /\ resp' = NoResponse
  /\ author' = NoAuthor
  /\ UNCHANGED <<store, listing, upd>>

\* the UUID of an author that is not stored:
\* cccccccc-cccc-4ccc-8ccc-cccccccccccc
AuthorC == [i \in 1..16 |-> IF i = 7 THEN 76 ELSE IF i = 9 THEN 140 ELSE 204]

\* bodies of POST /books: the title absent or given; author_id absent, of
\* a stored author, of an author that is not stored, a UUID that is not
\* version 4, no UUID; published_at absent, in two layouts, no date
CreateBodies ==
  [title : {<<>>, <<"A", "b">>},
   author_id : {<<>>, uuidString(AuthorA), uuidString(AuthorC), Rep("a", 32), <<"x">>},
   description : {<<>>},
   published_at : {<<>>, Date20200115, <<"1", "5", "-", "0", "1", "-", "2", "0", "2", "0">>, <<"2", "0", "2", "0", "-", "0", "2", "-", "3", "0">>}]

\* ids of DELETE /books/:id: of the books that are, were or will be stored,
\* of no book at all, and no UUID
DeleteIDs == {uuidString(BookID(n)) : n \in 1..MaxBooks} \cup {uuidString(AuthorC), <<"x">>}

(***************************************************************************)
(* The server handling one request to a single-book route at a time, next  *)
(* to the writes of other clients.                                         *)
(***************************************************************************)
NextBooks ==
  \/ \E b \in SeedBooks : Create(b)
  \/ \E id \in 1..MaxBooks : Delete(id)
  \/ \E body \in CreateBodies : CreateBookInsert(body)
  \/ CreateBookFetch
  \/ \E t \in DeleteIDs : DeleteBook(t)
  \/ HandlerReturn

SpecBooks == Init /\ [][NextBooks]_vars

(***************************************************************************)
(* PATCH /books/:id (UpdateBook): the book is read, the fields of the      *)
(* payload are assigned to the copy read, the copy is written back and the *)
(* book is read again for the response: three storage operations.          *)
(***************************************************************************)
\* the author_id and published_at of a payload as ShouldBindJSON decodes
\* them (uuid.UUID.UnmarshalText, Date.UnmarshalJSON)
PatchAuthorID(body) == IF body.author_id.present THEN uuidParse(body.author_id.value) ELSE [ok |-> TRUE, val |-> NilUUID]

PatchPublishedAt(body) == IF body.published_at.present THEN DateUnmarshalJSON(body.published_at.value) ELSE [ok |-> TRUE, val |-> NilTime]

\* validation.BindAndValidateJSON on an UpdateBookRequest: a field that does
\* not decode is INVALID_REQUEST_BODY; a decoded payload that breaks a
\* binding rule of a given field (title min=1; author_id uuid4) is
\* VALIDATION_ERROR; NoResponse when the payload binds.  No description
\* here is longer than 2000 bytes.
BindAndValidateUpdate(body) ==
  IF ~PatchAuthorID(body).ok \/ ~PatchPublishedAt(body).ok
  THEN writeError(400, "INVALID_REQUEST_BODY", "invalid request body")
  ELSE IF \/ body.title.present /\ body.title.value = <<>>
          \/ body.author_id.present /\ ~isUUID4(uuidString(PatchAuthorID(body).val))
  THEN writeError(400, "VALIDATION_ERROR", "validation failed")
  ELSE NoResponse

\* a payload taken to carry a field whatever it holds
NoFieldsToUpdate_never(body) == FALSE

\* req.Title == nil && req.AuthorID == nil && req.Description == nil &&
\* req.PublishedAt == nil
NoFieldsToUpdate(body) == ~body.title.present /\ ~body.author_id.present /\ ~body.description.present /\ ~body.published_at.present

\* the assignments with an empty published_at leaving the date alone
ApplyFields_keepDate(b, body) ==
  [b EXCEPT !.Title = IF body.title.present THEN body.title.value ELSE @,
            !.AuthorID = IF body.author_id.present THEN PatchAuthorID(body).val ELSE @,
            !.Description = IF body.description.present THEN body.description.value ELSE @,
            !.PublishedAt = IF body.published_at.present /\ PatchPublishedAt(body).val # NilTime THEN PatchPublishedAt(body).val ELSE @]

\* the assignments of UpdateBook to the book it read: each given field is
\* assigned; a published_at that is the zero date makes PublishedAt nil
ApplyFields(b, body) ==
  [b EXCEPT !.Title = IF body.title.present THEN body.title.value ELSE @,
            !.AuthorID = IF body.author_id.present THEN PatchAuthorID(body).val ELSE @,
            !.Description = IF body.description.present THEN body.description.value ELSE @,
            !.PublishedAt = IF body.published_at.present THEN PatchPublishedAt(body).val ELSE @]

\* the stored rows with the id of a model.Book
RowsOf(rows, id) == {r \in rows : r.ID = id}

\* UpdateBook tells gorm.ErrRecordNotFound from the other errors of
\* FindByID and no error of Update from another: one error stands for the
\* failures of the storage itself
StorageFailure == [type |-> "error", Code |-> "", ConstraintName |-> ""]

\* what repo.FindByID(id) can come back with, id being 16 bytes
FindOutcomes(u) == (IF \E r \in books : BookID(r.ID) = u THEN {NoError} ELSE {ErrRecordNotFound}) \cup {StorageFailure}

\* the checks of UpdateBook before anything is assigned, in the order of
\* the code: the path id, the outcome of FindByID, the payload, the fields
UpdateBookChecks_validateFirst(idText, err, body) ==
  IF ~uuidParse(idText).ok THEN writeError(400, "INVALID_BOOK_ID", "invalid book id")
  ELSE IF BindAndValidateUpdate(body) # NoResponse THEN BindAndValidateUpdate(body)
  ELSE IF NoFieldsToUpdate(body) THEN writeError(400, "NO_FIELDS_TO_UPDATE", "at least one field must be provided to update")
  ELSE IF err = ErrRecordNotFound THEN writeError(404, "BOOK_NOT_FOUND", "book not found")
  ELSE IF err # NoError THEN writeError(500, "BOOK_FETCH_FAILED", "failed to fetch book")
  ELSE NoResponse

UpdateBookChecks(idText, err, body) ==
  IF ~uuidParse(idText).ok THEN writeError(400, "INVALID_BOOK_ID", "invalid book id")
  ELSE IF err = ErrRecordNotFound THEN writeError(404, "BOOK_NOT_FOUND", "book not found")
  ELSE IF err # NoError THEN writeError(500, "BOOK_FETCH_FAILED", "failed to fetch book")
  ELSE IF BindAndValidateUpdate(body) # NoResponse THEN BindAndValidateUpdate(body)
  ELSE IF NoFieldsToUpdate(body) THEN writeError(400, "NO_FIELDS_TO_UPDATE", "at least one field must be provided to update")
  ELSE NoResponse

\* an UPDATE that inserts the row when no row has the id
UpdateRows_upsert(rows, b) ==
  IF RowsOf(rows, b.ID) = {} THEN rows \cup {b}
  ELSE {IF r.ID = b.ID THEN [r EXCEPT !.Title = b.Title, !.Description = b.Description, !.AuthorID = b.AuthorID, !.PublishedAt = b.PublishedAt] ELSE r : r \in rows}

\* the UPDATE of repo.Update: the four columns title, description,
\* author_id and published_at of the rows with the book's id are set from
\* the book handed in; no row with that id is no error and no change
UpdateRows(rows, b) ==
  {IF r.ID = b.ID THEN [r EXCEPT !.Title = b.Title, !.Description = b.Description, !.AuthorID = b.AuthorID, !.PublishedAt = b.PublishedAt] ELSE r : r \in rows}

\* what the UPDATE can come back with: the foreign key rejects a row made
\* to refer to an author that is not stored
UpdateOutcomes(b) == (IF RowsOf(books, b.ID) # {} /\ b.AuthorID \notin authors THEN {ErrForeignKey} ELSE {NoError}) \cup {StorageFailure}

\* UpdateBook up to the assignments: the path id is parsed, the book is
\* read, the payload is bound and checked for a field
UpdateBookFetch(c, idText, body) ==
  /\ upd[c].pc = "idle"
  /\ \E e \in (IF uuidParse(idText).ok THEN FindOutcomes(uuidParse(idText).val) ELSE {NoError}) :
       LET found == IF uuidParse(idText).ok /\ e = NoError THEN CHOOSE r \in books : BookID(r.ID) = uuidParse(idText).val ELSE NoBook
           failure == UpdateBookChecks(idText, e, body)
       IN  upd' = [upd EXCEPT ![c] = [pc |-> IF failure = NoResponse THEN "update" ELSE "done", id |-> idText, body |-> body, book |-> found, repoErr |-> e, resp |-> failure]]
  /\ UNCHANGED <<store, request, single, author>>

\* UpdateBook from the assignments to repo.Update: every error of the
\* write is answered 500 BOOK_UPDATE_FAILED
UpdateBookWrite(c) ==
  /\ upd[c].pc = "update"
  /\ LET b == ApplyFields(upd[c].book, upd[c].body)
     IN  \E e \in UpdateOutcomes(b) :
           IF e = NoError
           THEN /\ books' = UpdateRows(books, b)
                /\ upd' = [upd EXCEPT ![c].pc = "refetch", ![c].book = b, ![c].repoErr = e]
           ELSE /\ books' = books
                /\ upd' = [upd EXCEPT ![c].pc = "done", ![c].book = b, ![c].repoErr = e, ![c].resp = writeError(500, "BOOK_UPDATE_FAILED", "failed to update book")]
  /\ UNCHANGED <<authors, nextID, request, single, author>>

\* UpdateBook from the second repo.FindByID on: the book is read again and
\* answered with 200
UpdateBookRefetch(c) ==
  /\ upd[c].pc = "refetch"
  /\ \E e \in FindOutcomes(BookID(upd[c].book.ID)) :
       upd' = [upd EXCEPT ![c].pc = "done", ![c].repoErr = e,
                          ![c].resp = IF e = NoError
                                      THEN [status |-> 200, code |-> "", message |-> "", data |-> <<toBookResponse(CHOOSE r \in books : r.ID = upd[c].book.ID)>>, pagination |-> NoPagination]
                                      ELSE writeError(500, "BOOK_FETCH_FAILED", "failed to fetch updated book")]
  /\ UNCHANGED <<store, request, single, author>>

\* the handler returned: the client may send its next request
UpdateBookReturn(c) ==
  /\ upd[c].pc = "done"
  /\ upd' = [upd EXCEPT ![c] = NoUpdate]
  /\ UNCHANGED <<store, request, single, author>>


\* path ids of PATCH /books/:id: of the first book created, of no book at
\* all, and no UUID
PatchIDs == {uuidString(BookID(1)), uuidString(AuthorC), <<"x">>}

Date20210301 == <<"2", "0", "2", "1", "-", "0", "3", "-", "0", "1">>

\* payloads of the first client: no field; the title; the empty title; the
\* empty published_at; the author_id of a stored author, of an author that is not
\* stored, a UUID that is not version 4, no UUID; a published_at that is no
\* date; the title together with a published_at
Patches ==
  {NoPatch,
   [NoPatch EXCEPT !.title = Given(<<"C", "d">>)],
   [NoPatch EXCEPT !.title = Given(<<>>)],
   [NoPatch EXCEPT !.published_at = Given(<<>>)],
   [NoPatch EXCEPT !.author_id = Given(uuidString(AuthorB))],
   [NoPatch EXCEPT !.author_id = Given(uuidString(AuthorC))],
   [NoPatch EXCEPT !.author_id = Given(Rep("a", 32))],
   [NoPatch EXCEPT !.author_id = Given(<<"x">>)],
   [NoPatch EXCEPT !.published_at = Given(<<"2", "0", "2", "0", "-", "0", "2", "-", "3", "0">>)],
   [NoPatch EXCEPT !.title = Given(<<"C", "d">>), !.published_at = Given(Date20210301)]}

(***************************************************************************)
(* The server handling the PATCH /books/:id requests of one client, one at *)
(* a time, next to the creations and deletions of books by others.         *)
(***************************************************************************)
NextUpdate ==
  \/ \E b \in SeedBooks : Create(b)
  \/ \E id \in 1..MaxBooks : Delete(id)
  \/ \E t \in PatchIDs : \E body \in Patches : UpdateBookFetch(1, t, body)
  \/ UpdateBookWrite(1)
  \/ UpdateBookRefetch(1)
  \/ UpdateBookReturn(1)

SpecUpdate == Init /\ [][NextUpdate]_vars

\* payloads of clients that each update a field of their own: the title for
\* the first, the description for the others
RacePatch(c) == IF c = 1 THEN [NoPatch EXCEPT !.title = Given(<<"C", "d">>)] ELSE [NoPatch EXCEPT !.description = Given(<<"e">>)]

(***************************************************************************)
(* The server handling PATCH /books/:id requests of several clients to the *)
(* same book at once, each client updating a field of its own.             *)
(***************************************************************************)
NextRace ==
  \/ \E b \in SeedBooks : Create(b)
  \/ \E c \in Clients : UpdateBookFetch(c, uuidString(BookID(1)), RacePatch(c))
  \/ \E c \in Clients : UpdateBookWrite(c)
  \/ \E c \in Clients : UpdateBookRefetch(c)
  \/ \E c \in Clients : UpdateBookReturn(c)

SpecRace == Init /\ [][NextRace]_vars


(***************************************************************************)
(* The /authors routes of AuthorHandler.  Of an author the store keeps the *)
(* id here; the name and the biography are not modelled.  The books of an  *)
(* author are the stored books whose author_id is the author's id.         *)
(***************************************************************************)
\* the JSON body of POST /authors and PATCH /authors/:id
NoAuthorBody == [name |-> Absent, bio |-> Absent]

\* validation.BindAndValidateJSON on a CreateAuthorRequest (name required,
\* min=1) and on an UpdateAuthorRequest (name omitempty, min=1): NoResponse
\* when the body binds
BindAndValidateCreateAuthor(body) ==
  IF ~body.name.present \/ body.name.value = <<>> THEN writeError(400, "VALIDATION_ERROR", "validation failed") ELSE NoResponse

BindAndValidateUpdateAuthor(body) ==
  IF body.name.present /\ body.name.value = <<>> THEN writeError(400, "VALIDATION_ERROR", "validation failed") ELSE NoResponse

\* toBookSummaryResponse
toBookSummaryResponse(b) == [id |-> b.ID, title |-> b.Title, description |-> b.Description, published_at |-> b.PublishedAt, created_at |-> b.CreatedAt]

\* Preload("Books") for an author: the stored books of the author
PreloadBooks(a) == {b \in books : b.AuthorID = a}

\* toAuthorResponse of an author with its Books loaded
toAuthorResponse(a, loaded) == [id |-> a, books |-> {toBookSummaryResponse(b) : b \in loaded}]

\* the ids uuid.New() gives Author.BeforeCreate: an id no stored author
\* has (the one id of the pool is given again once its author is deleted)
FreshAuthorIDs == {AuthorC} \ authors

\* the authors in creation order (the seeded ones first), for
\* Order("created_at DESC")
AuthorsByCreation == <<AuthorA, AuthorB, AuthorC>>

RECURSIVE NewestFirst(_)
NewestFirst(k) ==
  IF k = 0 THEN <<>>
  ELSE (IF AuthorsByCreation[k] \in authors THEN <<AuthorsByCreation[k]>> ELSE <<>>) \o NewestFirst(k - 1)

\* CreateAuthor: the body is bound, the author is inserted with a fresh id
\* and answered 201
CreateAuthor(body) ==
  /\ pc = "idle"
  /\ req' = [route |-> "POST /authors", id |-> <<>>, body |-> body]
  /\ IF BindAndValidateCreateAuthor(body) # NoResponse
     THEN /\ resp' = BindAndValidateCreateAuthor(body)
          /\ repoErr' = NoError
          /\ UNCHANGED authors
     ELSE \/ /\ repoErr' = StorageFailure
             /\ resp' = writeError(500, "AUTHOR_CREATE_FAILED", "failed to create author")
             /\ UNCHANGED authors
          \/ \E a \in FreshAuthorIDs :
               /\ authors' = authors \cup {a}
               /\ repoErr' = NoError
               /\ resp' = [status |-> 201, code |-> "", message |-> "", data |-> <<toAuthorResponse(a, {})>>, pagination |-> NoPagination]
  /\ pc' = "done"
  /\ UNCHANGED <<books, nextID, listing, book, others>>

\* ListAuthors: every author is read with Preload("Books") and answered
\* through toAuthorResponse, newest first
ListAuthors ==
  /\ pc = "idle"
  /\ req' = [route |-> "GET /authors", id |-> <<>>, body |-> NoBody]
  /\ \/ /\ repoErr' = StorageFailure
        /\ resp' = writeError(500, "AUTHOR_LIST_FAILED", "failed to list authors")
     \/ /\ repoErr' = NoError
        /\ resp' = [status |-> 200, code |-> "", message |-> "",
                    data |-> [i \in 1..Len(NewestFirst(3)) |-> toAuthorResponse(NewestFirst(3)[i], PreloadBooks(NewestFirst(3)[i]))],
                    pagination |-> NoPagination]
  /\ pc' = "done"
  /\ UNCHANGED <<store, listing, book, others>>

\* GetAuthorByID: the id is parsed, the author is read with
\* Preload("Books") and answered through toAuthorResponse
GetAuthorByID(idText) ==
  /\ pc = "idle"
  /\ req' = [route |-> "GET /authors/:id", id |-> idText, body |-> NoBody]
  /\ IF ~uuidParse(idText).ok
     THEN /\ repoErr' = NoError
          /\ resp' = writeError(400, "AUTHOR_INVALID_ID", "invalid author id")
     ELSE \/ /\ repoErr' = StorageFailure
             /\ resp' = writeError(500, "AUTHOR_FETCH_FAILED", "failed to fetch author")
          \/ /\ uuidParse(idText).val \notin authors
             /\ repoErr' = ErrRecordNotFound
             /\ resp' = writeError(404, "AUTHOR_NOT_FOUND", "author not found")
          \/ /\ uuidParse(idText).val \in authors
             /\ repoErr' = NoError
             /\ resp' = [status |-> 200, code |-> "", message |-> "", data |-> <<toAuthorResponse(uuidParse(idText).val, PreloadBooks(uuidParse(idText).val))>>, pagination |-> NoPagination]
  /\ pc' = "done"
  /\ UNCHANGED <<store, listing, book, others>>

\* UpdateAuthor up to the assignments: the id is parsed, the body is bound
\* and the author is read with Preload("Books")
UpdateAuthorFetch(idText, body) ==
  /\ pc = "idle"
  /\ req' = [route |-> "PATCH /authors/:id", id |-> idText, body |-> body]
  /\ IF ~uuidParse(idText).ok
     THEN /\ repoErr' = NoError
          /\ resp' = writeError(400, "AUTHOR_INVALID_ID", "invalid author id")
          /\ pc' = "done"
          /\ UNCHANGED author
     ELSE IF BindAndValidateUpdateAuthor(body) # NoResponse
     THEN /\ repoErr' = NoError
          /\ resp' = BindAndValidateUpdateAuthor(body)
          /\ pc' = "done"
          /\ UNCHANGED author
     ELSE \/ /\ repoErr' = StorageFailure
             /\ resp' = writeError(500, "AUTHOR_FETCH_FAILED", "failed to fetch author")
             /\ pc' = "done"
             /\ UNCHANGED author
          \/ /\ uuidParse(idText).val \notin authors
             /\ repoErr' = ErrRecordNotFound
             /\ resp' = writeError(404, "AUTHOR_NOT_FOUND", "author not found")
             /\ pc' = "done"
             /\ UNCHANGED author
          \/ /\ uuidParse(idText).val \in authors
             /\ repoErr' = NoError
             /\ resp' = NoResponse
             /\ author' = [ID |-> uuidParse(idText).val, Books |-> PreloadBooks(uuidParse(idText).val)]
             /\ pc' = "save"
  /\ UNCHANGED <<store, listing, book, upd>>

\* what db.Save(&author) does to the books: the Books loaded with the
\* author are written with it, each inserted with author_id the author's
\* id, or, when a row with its id is stored, that row's author_id set to
\* the author's id
SaveBooks(rows, a) ==
  {IF \E s \in a.Books : s.ID = r.ID THEN [r EXCEPT !.AuthorID = a.ID] ELSE r : r \in rows}
    \cup {[s EXCEPT !.AuthorID = a.ID] : s \in {t \in a.Books : \A r \in rows : r.ID # t.ID}}

\* UpdateAuthor from the assignments on: the author is saved (the row is
\* updated, or inserted when no row has its id) together with its loaded
\* Books, and answered 200
UpdateAuthorSave ==
  /\ pc = "save"
  /\ \/ /\ repoErr' = StorageFailure
        /\ resp' = writeError(500, "AUTHOR_UPDATE_FAILED", "failed to update author")
        /\ UNCHANGED <<authors, books>>
     \/ /\ repoErr' = NoError
        /\ authors' = authors \cup {author.ID}
        /\ books' = SaveBooks(books, author)
        /\ resp' = [status |-> 200, code |-> "", message |-> "", data |-> <<toAuthorResponse(author.ID, author.Books)>>, pagination |-> NoPagination]
  /\ pc' = "done"
  /\ UNCHANGED <<nextID, listing, req, book, others>>

\* a DELETE of an author that the foreign key of the books does not stop
DeleteAuthorOutcomes_unchecked(a) == {NoError, StorageFailure}

\* what the DELETE of DeleteAuthor can come back with: the foreign key of
\* books.author_id rejects the delete of an author that has books
DeleteAuthorOutcomes(a) == (IF PreloadBooks(a) # {} THEN {ErrForeignKey} ELSE {NoError}) \cup {StorageFailure}

\* DeleteAuthor: the id is parsed, one DELETE statement runs; an error is
\* 500 AUTHOR_DELETE_FAILED, no row affected is 404 AUTHOR_NOT_FOUND
DeleteAuthor(idText) ==
  /\ pc = "idle"
  /\ req' = [route |-> "DELETE /authors/:id", id |-> idText, body |-> NoBody]
  /\ IF ~uuidParse(idText).ok
     THEN /\ repoErr' = NoError
          /\ resp' = writeError(400, "AUTHOR_INVALID_ID", "invalid author id")
          /\ UNCHANGED authors
     ELSE \E e \in DeleteAuthorOutcomes(uuidParse(idText).val) :
            /\ repoErr' = e
            /\ IF e # NoError
               THEN /\ resp' = writeError(500, "AUTHOR_DELETE_FAILED", "failed to delete author")
                    /\ UNCHANGED authors
               ELSE /\ authors' = authors \ {uuidParse(idText).val}
                    /\ resp' = IF uuidParse(idText).val \in authors
                               THEN [status |-> 204, code |-> "", message |-> "", data |-> <<>>, pagination |-> NoPagination]
                               ELSE writeError(404, "AUTHOR_NOT_FOUND", "author not found")
  /\ pc' = "done"
  /\ UNCHANGED <<books, nextID, listing, book, others>>

\* bodies of POST /authors and PATCH /authors/:id: the name absent or given
AuthorBodies == {NoAuthorBody, [NoAuthorBody EXCEPT !.name = Given(<<"N">>)]}

\* path ids of the /authors/:id routes: of a seeded author, of the author
\* that may be created, and no UUID
AuthorIDs == {uuidString(AuthorA), uuidString(AuthorC), <<"x">>}

\* payloads of PATCH /books/:id that move the book to the author that may
\* be created
AuthorPatches == {[NoPatch EXCEPT !.author_id = Given(uuidString(AuthorC))]}

(***************************************************************************)
(* The server handling one request to an /authors route at a time, next to *)
(* a client's PATCH /books/:id requests and the creations and deletions of *)
(* books by others.                                                        *)
(***************************************************************************)
NextAuthors ==
  \/ \E b \in SeedBooks : Create(b)
  \/ \E id \in 1..MaxBooks : Delete(id)
  \/ \E body \in AuthorBodies : CreateAuthor(body)
  \/ ListAuthors
  \/ \E t \in AuthorIDs : GetAuthorByID(t)
  \/ \E t \in AuthorIDs : \E body \in AuthorBodies : UpdateAuthorFetch(t, body)
  \/ UpdateAuthorSave
  \/ \E t \in AuthorIDs : DeleteAuthor(t)
  \/ HandlerReturn
  \/ \E body \in AuthorPatches : UpdateBookFetch(1, uuidString(BookID(1)), body)
  \/ UpdateBookWrite(1)
  \/ UpdateBookRefetch(1)
  \/ UpdateBookReturn(1)

SpecAuthors == Init /\ [][NextAuthors]_vars

(***************************************************************************)
(* Properties of the listing handler, checked under Spec.                  *)
(***************************************************************************)
\* the least n with n * pageSize >= total
CeilDiv(total, pageSize) == CHOOSE n \in 0..total : n * pageSize >= total /\ \A m \in 0..(n - 1) : m * pageSize < total

\* C1: in a successful listing response total_pages is ceil(total /
\* page_size) when page_size > 0 and 0 when page_size is 0.
C1_TotalPagesIsCeiling ==
  (pc = "done" /\ resp.status = 200) =>
    /\ resp.pagination.total >= 0
    /\ resp.pagination.page_size > 0 => resp.pagination.total_pages = CeilDiv(resp.pagination.total, resp.pagination.page_size)
    /\ resp.pagination.page_size = 0 => resp.pagination.total_pages = 0

C1_Witness == pc = "done" /\ resp.status = 200 /\ resp.pagination.total = 1 /\ resp.pagination.page_size = 2 /\ resp.pagination.total_pages = 1

\* a raw page or page_size that is given but is not a number, or is a
\* number that is not positive
NotPositiveNumber(s) == s # <<>> /\ (~Atoi(s).ok \/ Atoi(s).val <= 0)

\* C2: when the raw page or page_size is non-numeric or non-positive, the
\* descriptor carries the default (page 1, page_size 20) and the request is
\* not rejected for it.
C2_DefaultsForBadPaging ==
  /\ (pc = "done" /\ resp.status = 400) => resp.code \in {"INVALID_AUTHOR_ID", "INVALID_PUBLISHED_AFTER", "INVALID_PUBLISHED_BEFORE"}
  /\ \A i \in 1..Len(listArgs) :
       /\ NotPositiveNumber(raw.page) => listArgs[i].Page = 1
       /\ NotPositiveNumber(raw.page_size) => listArgs[i].PageSize = 20

\* C3: every descriptor passed to the repository List has Page >= 1 and
\* PageSize >= 1.
C3_PagingPositive == \A i \in 1..Len(listArgs) : listArgs[i].Page >= 1 /\ listArgs[i].PageSize >= 1

\* C4: every Sort value that reaches the repository List is one of the six
\* enumerated sort keys.
C4_SortEnumerated == \A i \in 1..Len(listArgs) : listArgs[i].Sort \in {"created_at_desc", "created_at_asc", "title_asc", "title_desc", "published_at_desc", "published_at_asc"}

\* C5: a page_size above 100 is clamped to 100: the descriptor passed to
\* List and the page_size of the response are 100 and total_pages is
\* computed with 100.
C5_PageSizeClamped ==
  (Atoi(raw.page_size).ok /\ Atoi(raw.page_size).val > 100) =>
    /\ \A i \in 1..Len(listArgs) : listArgs[i].PageSize = 100
    /\ (pc = "done" /\ resp.status = 200) =>
         /\ resp.pagination.page_size = 100
         /\ resp.pagination.total_pages = CeilDiv(resp.pagination.total, 100)

C5_Witness == pc = "done" /\ resp.status = 200 /\ raw.page_size = <<"1", "0", "1">> /\ resp.pagination.page_size = 100 /\ resp.pagination.total = 2 /\ resp.pagination.total_pages = 1

HexChars == {"0", "1", "2", "3", "4", "5", "6", "7", "8", "9", "a", "b", "c", "d", "e", "f", "A", "B", "C", "D", "E", "F"}

\* the text is xxxxxxxx-xxxx-xxxx-xxxx-xxxxxxxxxxxx in hexadecimal digits
CanonicalUUIDText(s) == Len(s) = 36 /\ \A i \in 1..36 : IF i \in {9, 14, 19, 24} THEN s[i] = "-" ELSE s[i] \in HexChars

\* the forms of a UUID: canonical, canonical in braces, 32 digits
ValidUUIDText(s) ==
  \/ CanonicalUUIDText(s)
  \/ Len(s) = 38 /\ CanonicalUUIDText(SubSeq(s, 2, 37))
  \/ Len(s) = 32 /\ \A i \in 1..32 : s[i] \in HexChars

\* C6: a request with a non-empty author_id that is not a valid UUID ends
\* with 400 INVALID_AUTHOR_ID and the repository List is never invoked.
C6_InvalidAuthorRejected ==
  (pc # "idle" /\ raw.author_id # <<>> /\ ~ValidUUIDText(raw.author_id)) =>
    /\ pc = "done"
    /\ resp.status = 400
    /\ resp.code = "INVALID_AUTHOR_ID"
    /\ listArgs = <<>>
    /\ result = NoResult

C6_Witness == pc = "done" /\ raw.author_id = UUIDText("g") /\ resp.status = 400 /\ resp.code = "INVALID_AUTHOR_ID" /\ books # {}

MonthLength(y, m) == IF m = 2 THEN (IF (y % 4 = 0 /\ y % 100 # 0) \/ y % 400 = 0 THEN 29 ELSE 28) ELSE <<31, 0, 31, 30, 31, 30, 31, 31, 30, 31, 30, 31>>[m]

TwoDigits(n) == <<Digits[(n \div 10) + 1], Digits[(n % 10) + 1]>>

\* the YYYY-MM-DD rendering of a calendar date
FormatDate(y, m, d) == TwoDigits(y \div 100) \o TwoDigits(y % 100) \o <<"-">> \o TwoDigits(m) \o <<"-">> \o TwoDigits(d)

\* the YYYY-MM-DD texts of the calendar dates of the years of the inputs
ValidDateTexts == {FormatDate(ymd[1], ymd[2], ymd[3]) : ymd \in {x \in (2019..2021) \X (1..12) \X (1..31) : x[3] <= MonthLength(x[1], x[2])}}

MalformedDate(s) == s # <<>> /\ s \notin ValidDateTexts

Rejected(code) == pc = "done" /\ resp.status = 400 /\ resp.code = code /\ listArgs = <<>> /\ result = NoResult

\* C7 as stated: a malformed published_after ends with 400
\* INVALID_PUBLISHED_AFTER, a malformed published_before with 400
\* INVALID_PUBLISHED_BEFORE, without a repository List call.
C7_EachBoundNamed ==
  pc # "idle" =>
    /\ MalformedDate(raw.published_after) => Rejected("INVALID_PUBLISHED_AFTER")
    /\ MalformedDate(raw.published_before) => Rejected("INVALID_PUBLISHED_BEFORE")

\* C7 amended: a malformed date bound ends with 400 and without a
\* repository List call; the code is INVALID_PUBLISHED_AFTER when
\* published_after is malformed and author_id is absent or valid, and
\* INVALID_PUBLISHED_BEFORE when published_before is malformed and
\* author_id and published_after are absent or valid.
C7_FirstMalformedBoundNamed ==
  (pc # "idle" /\ (MalformedDate(raw.published_after) \/ MalformedDate(raw.published_before))) =>
    /\ pc = "done" /\ resp.status = 400 /\ listArgs = <<>> /\ result = NoResult
    /\ (MalformedDate(raw.published_after) /\ (raw.author_id = <<>> \/ ValidUUIDText(raw.author_id))) => resp.code = "INVALID_PUBLISHED_AFTER"
    /\ (MalformedDate(raw.published_before) /\ ~MalformedDate(raw.published_after) /\ (raw.author_id = <<>> \/ ValidUUIDText(raw.author_id))) => resp.code = "INVALID_PUBLISHED_BEFORE"

C7_Witness == pc = "done" /\ raw.published_after = Date20200115 /\ MalformedDate(raw.published_before) /\ raw.author_id = UUIDText("A") /\ resp.status = 400 /\ resp.code = "INVALID_PUBLISHED_BEFORE" /\ books # {}

(***************************************************************************)
(* Properties of the repository List, checked under SpecRepo.              *)
(***************************************************************************)
\* q occurs in text, letter case ignored
TextMatch(text, q) == \E k \in 0..(Len(text) - Len(q)) : \A j \in 1..Len(q) : ToLowerChar(text[k + j]) = ToLowerChar(q[j])

\* book b satisfies every filter that descriptor p carries
Satisfies(b, p) ==
  /\ p.Query # <<>> => (TextMatch(b.Title, p.Query) \/ TextMatch(b.Description, p.Query))
  /\ p.AuthorID # NilUUID => b.AuthorID = p.AuthorID
  /\ p.PubAfter # NilTime => (b.PublishedAt # NilTime /\ b.PublishedAt >= p.PubAfter)
  /\ p.PubBefore # NilTime => (b.PublishedAt # NilTime /\ b.PublishedAt <= p.PubBefore)

\* the step in which List fetched its rows, and the one in which it counted
RowsFetched == pc = "rows" /\ pc' = "count"

Counted == pc = "count" /\ pc' = "ret" /\ ~result'.err

\* C8: the total returned by List is the number of stored books that
\* satisfy the filters, whatever the page and page size, not the number of
\* rows on the page.
C8_TotalCountsBeforePagination == [][Counted => result'.Total = Cardinality({b \in books : Satisfies(b, params)})]_vars

C8_Witness == pc = "ret" /\ ~result.err /\ params.Page = 2 /\ params.PageSize = 1 /\ result.Total = 2 /\ Len(result.Books) = 1 /\ Cardinality({b \in books : Satisfies(b, params)}) = 2

\* C9: with an author filter every returned row is by that author, and the
\* total counts books of that author only (all of them when no other filter
\* is present).
C9_AuthorFilter ==
  [][params.AuthorID # NilUUID =>
       /\ RowsFetched => \A i \in 1..Len(result'.Books) : result'.Books[i].AuthorID = params.AuthorID
       /\ Counted => result'.Total <= Cardinality({b \in books : b.AuthorID = params.AuthorID})
       /\ (Counted /\ params.Query = <<>> /\ params.PubAfter = NilTime /\ params.PubBefore = NilTime) =>
            result'.Total = Cardinality({b \in books : b.AuthorID = params.AuthorID})]_vars

C9_Witness == pc = "ret" /\ ~result.err /\ params.AuthorID = AuthorA /\ params.Query = <<>> /\ result.Total = 1 /\ Len(result.Books) = 1 /\ result.Books[1].AuthorID = AuthorA /\ Cardinality(books) = 2

Reverse(seq) == [i \in 1..Len(seq) |-> seq[Len(seq) + 1 - i]]

\* s is at most t in lexical byte order: at the first position where they
\* differ s has the smaller byte, or s is a prefix of t
TextLeq(s, t) ==
  LET n == IF Len(s) < Len(t) THEN Len(s) ELSE Len(t)
      diff == {i \in 1..n : s[i] # t[i]}
  IN  IF diff = {} THEN Len(s) <= Len(t)
      ELSE LET k == CHOOSE i \in diff : \A j \in diff : i <= j IN CharCode(s[k]) < CharCode(t[k])

TitlesNonDecreasing(seq) == \A i \in 1..Len(seq) : \A j \in 1..Len(seq) : i < j => TextLeq(seq[i].Title, seq[j].Title)

TitlesNonIncreasing(seq) == \A i \in 1..Len(seq) : \A j \in 1..Len(seq) : i < j => TextLeq(seq[j].Title, seq[i].Title)

\* rows of one title stand in insertion order
SameTitleInInsertionOrder(seq) == \A i \in 1..Len(seq) : \A j \in 1..Len(seq) : (i < j /\ seq[i].Title = seq[j].Title) => seq[i].ID < seq[j].ID

\* the number of stored books the filters of the call in progress admit
MatchingCount == Cardinality({b \in books : Satisfies(b, params)})

\* the call in progress asks for the first page and it holds every match
WholeResult == params.Page = 1 /\ MatchingCount <= params.PageSize

\* what the call in progress would fetch under sort=title_asc
TitleAscRows == PageRows(books, [params EXCEPT !.Sort = "title_asc"])

PageOf(q) == PageRows(books, [params EXCEPT !.Page = q])

\* pages 1..n of the call in progress, one after the other
RECURSIVE ConcatPages(_)
ConcatPages(n) == IF n = 0 THEN <<>> ELSE ConcatPages(n - 1) \o PageOf(n)

InOrder(seq, sort) == \A i \in 1..Len(seq) : \A j \in 1..Len(seq) : i < j => Before(seq[i], seq[j], sort)

\* C12: List applies offset (page-1)*page_size and limit page_size after
\* filtering and sorting: against one store content, pages 1..total_pages
\* one after the other are the matching books in sort order, each exactly
\* once, and the rows a call returns are its page of that sequence, the same
\* for every call with the same descriptor.
C12_PagesPartitionResult ==
  [][RowsFetched =>
       LET all == ConcatPages(CeilDiv(MatchingCount, params.PageSize))
           off == (params.Page - 1) * params.PageSize
           last == IF off + params.PageSize < Len(all) THEN off + params.PageSize ELSE Len(all)
       IN  /\ Len(all) = MatchingCount
           /\ {all[i] : i \in 1..Len(all)} = {b \in books : Satisfies(b, params)}
           /\ InOrder(all, params.Sort)
           /\ result'.Books = SubSeq(all, off + 1, last)
           /\ result'.Books = PageOf(params.Page)]_vars

C12_Witness == pc = "count" /\ params.Page = 2 /\ params.PageSize = 1 /\ params.Sort = "created_at_asc" /\ params.Query = <<>> /\ params.AuthorID = NilUUID /\ params.PubAfter = NilTime /\ params.PubBefore = NilTime /\ Cardinality(books) = 2 /\ Len(result.Books) = 1 /\ \A b \in books : b.ID <= result.Books[1].ID

(***************************************************************************)
(* Properties of one listing request from the query texts to the response, *)
(* checked under Spec.                                                     *)
(***************************************************************************)
\* the step in which ListBooks writes its response
Responded == pc = "ret" /\ pc' = "done"

\* C13: a page beyond the last one is not rejected: nothing is fetched for
\* it, the call still counts the matching books, and the response is a 200
\* with the rows of the fetch, that total and total_pages = ceil(total /
\* page_size), which is not zero when the total is not.
C13_PageBeyondLastIsEmptySuccess ==
  [][/\ (RowsFetched /\ params.Page >= 1 /\ params.PageSize >= 1 /\ (params.Page - 1) * params.PageSize >= MatchingCount) => result'.Books = <<>>
     /\ Counted => (result'.Total = MatchingCount /\ result'.Books = result.Books)
     /\ (Responded /\ ~result.err) =>
          /\ resp'.status = 200
          /\ Len(resp'.data) = Len(result.Books)
          /\ resp'.pagination.page = params.Page
          /\ resp'.pagination.total = result.Total
          /\ params.PageSize >= 1 => resp'.pagination.total_pages = CeilDiv(result.Total, params.PageSize)
          /\ (params.PageSize >= 1 /\ result.Total > 0) => resp'.pagination.total_pages > 0]_vars

C13_Witness == pc = "done" /\ resp.status = 200 /\ resp.pagination.page = 2 /\ resp.pagination.page_size = 2 /\ resp.data = <<>> /\ resp.pagination.total = 1 /\ resp.pagination.total_pages = 1 /\ Cardinality(books) = 1

\* the YYYY-MM-DD text of a stored date
DateText(n) == FormatDate(n \div 10000, (n \div 100) % 100, n % 100)

\* the books published exactly on a date bound of the request in progress
\* that pass its other filters and its other bound
OnBoundary ==
  {b \in books :
     /\ b.PublishedAt # NilTime
     /\ raw.published_after = DateText(b.PublishedAt) \/ raw.published_before = DateText(b.PublishedAt)
     /\ raw.published_after # <<>> => \E c \in books : raw.published_after = DateText(c.PublishedAt) /\ c.PublishedAt <= b.PublishedAt
     /\ raw.published_before # <<>> => \E c \in books : raw.published_before = DateText(c.PublishedAt) /\ c.PublishedAt >= b.PublishedAt
     /\ Satisfies(b, [params EXCEPT !.PubAfter = NilTime, !.PubBefore = NilTime])}

C16_ListErrorIs500 ==
  (pc = "done" /\ result.err) =>
    /\ resp.status = 500
    /\ resp.code = "BOOK_LIST_FAILED"
    /\ resp.message = "failed to fetch books"
    /\ resp.data = <<>>
    /\ resp.pagination = NoPagination

C16_Witness == pc = "done" /\ result.err /\ resp.status = 500 /\ resp.code = "BOOK_LIST_FAILED" /\ books # {} /\ raw.page_size = <<"2">>

C15_RowsAtMostPageSize == (pc \in {"count", "ret"} /\ ~result.err /\ params.Page >= 1 /\ params.PageSize >= 1) => Len(result.Books) <= params.PageSize

C15_Witness == pc = "ret" /\ ~result.err /\ params.Page = 1 /\ params.PageSize = 1 /\ Len(result.Books) = 1 /\ result.Total = 2

(***************************************************************************)
(* Properties of the single-book routes, checked under SpecBooks.          *)
(***************************************************************************)
\* the 8-4-4-4-12 lower-case hexadecimal text of 16 bytes
CanonicalText(u) ==
  LET digit(n) == <<"0", "1", "2", "3", "4", "5", "6", "7", "8", "9", "a", "b", "c", "d", "e", "f">>[n + 1]
      pair(i) == <<digit(u[i] \div 16), digit(u[i] % 16)>>
  IN  pair(1) \o pair(2) \o pair(3) \o pair(4) \o <<"-">> \o pair(5) \o pair(6) \o <<"-">> \o pair(7) \o pair(8) \o <<"-">> \o pair(9) \o pair(10) \o <<"-">> \o pair(11) \o pair(12) \o pair(13) \o pair(14) \o pair(15) \o pair(16)

\* the step in which DeleteBook handles a well-formed id that is the id of
\* no stored book
DeletesMissingBook ==
  /\ pc = "idle" /\ pc' = "done"
  /\ req'.route = "DELETE /books/:id"
  /\ CanonicalUUIDText(req'.id)
  /\ \A b \in books : CanonicalText(BookID(b.ID)) # req'.id

\* C19: deleting a book id that is not in the store fails: the store is
\* left as it was, the repository Delete returns the not-found error and
\* DeleteBook answers 404 BOOK_NOT_FOUND (or, when the storage itself fails,
\* its error and 500), never a success.
C19_DeleteMissingIsNotFound ==
  [][DeletesMissingBook =>
       /\ books' = books /\ authors' = authors
       /\ repoErr' \in {ErrRecordNotFound} \cup StorageErrors
       /\ repoErr' = ErrRecordNotFound => (resp'.status = 404 /\ resp'.code = "BOOK_NOT_FOUND" /\ resp'.message = "book not found")
       /\ repoErr' \in StorageErrors => (resp'.status = 500 /\ resp'.code = "BOOK_DELETE_FAILED")]_vars

\* book 1 was created and deleted before the request for it
C19_Witness == pc = "done" /\ req.route = "DELETE /books/:id" /\ req.id = CanonicalText(BookID(1)) /\ nextID = 3 /\ books # {} /\ (\A b \in books : b.ID # 1) /\ repoErr = ErrRecordNotFound /\ resp.status = 404 /\ resp.code = "BOOK_NOT_FOUND"

\* the step in which CreateBook handles a body that binds (a title, a
\* version-4 author_id, a date or none) and names an author that is not
\* stored
CreatesForMissingAuthor ==
  /\ pc = "idle" /\ pc' # "idle"
  /\ req'.route = "POST /books"
  /\ req'.body.title # <<>>
  /\ CanonicalUUIDText(req'.body.author_id) /\ req'.body.author_id[15] = "4" /\ req'.body.author_id[20] \in {"8", "9", "a", "b"}
  /\ req'.body.published_at \in {<<>>} \cup ValidDateTexts
  /\ \A a \in authors : CanonicalText(a) # req'.body.author_id

\* C20: creating a book whose author_id names no stored author adds no
\* book and is answered 400 AUTHOR_NOT_FOUND, the answer to the foreign-key
\* error of the insert, and not 500 BOOK_CREATE_FAILED, which answers the
\* other errors of the storage.
C20_MissingAuthorIsClientError ==
  [][CreatesForMissingAuthor =>
       /\ books' = books /\ nextID' = nextID
       /\ pc' = "done"
       /\ repoErr' \in {ErrForeignKey} \cup StorageErrors
       /\ repoErr' = ErrForeignKey => (resp'.status = 400 /\ resp'.code = "AUTHOR_NOT_FOUND" /\ resp'.message = "author does not exist")
       /\ repoErr' \in StorageErrors => (resp'.status = 500 /\ resp'.code = "BOOK_CREATE_FAILED")]_vars

C20_Witness == pc = "done" /\ req.route = "POST /books" /\ req.body.author_id = CanonicalText(AuthorC) /\ repoErr = ErrForeignKey /\ resp.status = 400 /\ resp.code = "AUTHOR_NOT_FOUND" /\ books # {} /\ \A b \in books : b.AuthorID # AuthorC

(***************************************************************************)
(* Properties of PATCH /books/:id, checked under SpecUpdate.               *)
(***************************************************************************)
\* the request of the client has been answered after its write was
\* rejected by the foreign key: the payload named an author that is not
\* stored and the book was stored
RejectedByForeignKey == upd[1].pc = "done" /\ upd[1].repoErr = ErrForeignKey

\* C21: an update of an existing book whose author_id refers to no stored
\* author fails with an error that is not the generic storage failure
\* 500 BOOK_UPDATE_FAILED, and the stored author reference of the book is
\* unchanged
C21_UnknownAuthorFailsDistinctly ==
  RejectedByForeignKey =>
    /\ upd[1].resp.status >= 400
    /\ upd[1].resp.code # "BOOK_UPDATE_FAILED"
    /\ \A r \in books : CanonicalText(BookID(r.ID)) = upd[1].id => r.AuthorID \in authors

\* the step in which the write of the client's update succeeds
WritesUpdate == upd[1].pc = "update" /\ upd'[1].pc = "refetch"

\* the value a payload gives a text field, or the one it had
TextAfter(field, previous) == IF field.present THEN field.value ELSE previous

\* the value a payload gives the publication date, or the one it had: the
\* empty text is no date, another text is the date it spells
DateAfter(field, previous) ==
  IF ~field.present THEN previous
  ELSE IF field.value = <<>> THEN NilTime
  ELSE CHOOSE d \in 20190101..20211231 : DateText(d) = field.value

\* the value a payload gives the author reference, or the one it had
AuthorAfter(field, previous) ==
  IF ~field.present THEN previous
  ELSE CHOOSE a \in {AuthorA, AuthorB, AuthorC} : CanonicalText(a) = field.value

\* C24: the write of UpdateBook on a stored book sets exactly the fields of
\* the payload: a given field takes the given value, a published_at given
\* as the empty date makes the stored date null, an absent field keeps the
\* value stored before; the id and creation time stay and no other book
\* changes
C24_UpdateSetsExactlyGivenFields ==
  [][WritesUpdate =>
       \A r \in books :
         IF CanonicalText(BookID(r.ID)) = upd[1].id
         THEN LET body == upd[1].body
              IN  [ID |-> r.ID,
                   Title |-> TextAfter(body.title, r.Title),
                   AuthorID |-> AuthorAfter(body.author_id, r.AuthorID),
                   Description |-> TextAfter(body.description, r.Description),
                   PublishedAt |-> DateAfter(body.published_at, r.PublishedAt),
                   CreatedAt |-> r.CreatedAt] \in books'
         ELSE r \in books']_vars

\* the publication date of the book has been cleared by an update that gave
\* only the empty published_at, the other fields being as they were
C24_Witness ==
  /\ upd[1].pc = "refetch"
  /\ upd[1].body = [title |-> Absent, author_id |-> Absent, description |-> Absent, published_at |-> Given(<<>>)]
  /\ \E r \in books : CanonicalText(BookID(r.ID)) = upd[1].id /\ r.PublishedAt = NilTime /\ r.Title = <<"A", "b">> /\ r.AuthorID = AuthorA

\* the step in which UpdateBook takes up a request for a book it finds
\* stored, the payload having none of the four fields
FindsBookForEmptyPayload ==
  /\ upd[1].pc = "idle" /\ upd'[1].pc # "idle"
  /\ \E r \in books : CanonicalText(BookID(r.ID)) = upd'[1].id
  /\ upd'[1].repoErr = NoError
  /\ \A f \in {"title", "author_id", "description", "published_at"} : ~upd'[1].body[f].present

\* C25: an update of a stored book with a payload that has none of title,
\* author_id, description and published_at is answered 400
\* NO_FIELDS_TO_UPDATE; the request is over with that answer, so the
\* repository Update is not called, and the stored books are unchanged
C25_EmptyPayloadRejected ==
  [][FindsBookForEmptyPayload =>
       /\ upd'[1].pc = "done"
       /\ upd'[1].resp.status = 400
       /\ upd'[1].resp.code = "NO_FIELDS_TO_UPDATE"
       /\ books' = books]_vars

C25_Witness ==
  /\ upd[1].pc = "done"
  /\ upd[1].body = NoPatch
  /\ upd[1].book \in books
  /\ upd[1].resp.code = "NO_FIELDS_TO_UPDATE"

\* the step in which the client's request ends
CompletesUpdate == upd[1].pc # "done" /\ upd'[1].pc = "done"

\* the ids of the books that were created and are no longer stored
DeletedIDs == {n \in 1..(nextID - 1) : \A r \in books : r.ID # n}

\* C27: an UpdateBook running next to a successful delete of the same book
\* never brings the book back: a deleted book is stored in no later state,
\* and a request that ends while its book is not stored ends in an error
\* response, not 200
C27_UpdateNeverRestoresDeletedBook ==
  [][/\ \A n \in DeletedIDs : \A r \in books' : r.ID # n
     /\ (CompletesUpdate /\ \A r \in books : CanonicalText(BookID(r.ID)) # upd'[1].id) => upd'[1].resp.status >= 400]_vars

\* the book was deleted between the write of the update and its second
\* read, and the update was answered 500
C27_Witness ==
  /\ upd[1].pc = "done"
  /\ upd[1].book.ID \in DeletedIDs
  /\ upd[1].book.Title = <<"C", "d">>
  /\ upd[1].repoErr = ErrRecordNotFound
  /\ upd[1].resp.status = 500
  /\ upd[1].resp.code = "BOOK_FETCH_FAILED"

\* the step in which UpdateBook takes up a request
TakesUpUpdate == upd[1].pc = "idle" /\ upd'[1].pc # "idle"

\* the book the path id of the request names is stored
UpdatedBookStored == \E r \in books : CanonicalText(BookID(r.ID)) = upd'[1].id

\* C29: UpdateBook checks the path id, then that the book exists, then the
\* payload, then that a field is given: a well-formed id of no stored book
\* is answered 404 BOOK_NOT_FOUND (500 BOOK_FETCH_FAILED when the read
\* itself fails) whatever the payload, and VALIDATION_ERROR,
\* INVALID_REQUEST_BODY and NO_FIELDS_TO_UPDATE are only answered for a
\* book that is stored
C29_ExistenceCheckedBeforePayload ==
  [][TakesUpUpdate =>
       /\ ~ValidUUIDText(upd'[1].id) => upd'[1].resp.code = "INVALID_BOOK_ID"
       /\ (ValidUUIDText(upd'[1].id) /\ ~UpdatedBookStored) =>
            \/ upd'[1].resp.status = 404 /\ upd'[1].resp.code = "BOOK_NOT_FOUND"
            \/ upd'[1].repoErr = StorageFailure /\ upd'[1].resp.status = 500 /\ upd'[1].resp.code = "BOOK_FETCH_FAILED"
       /\ upd'[1].resp.code \in {"VALIDATION_ERROR", "INVALID_REQUEST_BODY", "NO_FIELDS_TO_UPDATE"} =>
            ValidUUIDText(upd'[1].id) /\ UpdatedBookStored /\ upd'[1].book \in books]_vars

\* an unusable payload for a book that is not stored was answered 404
C29_Witness ==
  /\ upd[1].pc = "done"
  /\ upd[1].id = CanonicalText(AuthorC)
  /\ upd[1].body.author_id = Given(<<"x">>)
  /\ upd[1].resp.status = 404
  /\ upd[1].resp.code = "BOOK_NOT_FOUND"

(***************************************************************************)
(* Properties of concurrent PATCH /books/:id requests, checked under       *)
(* SpecRace.                                                               *)
(***************************************************************************)
\* both clients have been answered 200: the first gave only the title, the
\* second only the description, of the same book
BothUpdatesSucceeded ==
  /\ upd[1].pc = "done" /\ upd[1].resp.status = 200
  /\ upd[2].pc = "done" /\ upd[2].resp.status = 200
  /\ upd[1].id = upd[2].id

\* C26: two UpdateBook requests on the same book that give disjoint fields,
\* interleaved in any order, leave the store with both new values: neither
\* overwrites the field of the other with the value it read
C26_DisjointUpdatesBothKept ==
  BothUpdatesSucceeded =>
    \A r \in books : CanonicalText(BookID(r.ID)) = upd[1].id =>
      /\ r.Title = upd[1].body.title.value
      /\ r.Description = upd[2].body.description.value

(***************************************************************************)
(* The order of the filter checks of ListBooks, checked under Spec.        *)
(***************************************************************************)
\* the author_id of the request in progress is given and is no UUID
AuthorIDMalformed == raw.author_id # <<>> /\ ~ValidUUIDText(raw.author_id)

\* C28: ListBooks checks author_id, then published_after, then
\* published_before, and reports the first failure only: a malformed
\* author_id is answered INVALID_AUTHOR_ID whatever the date bounds are,
\* and two malformed date bounds next to an absent or valid author_id are
\* answered INVALID_PUBLISHED_AFTER
C28_FirstFilterFailureReported ==
  pc # "idle" =>
    /\ AuthorIDMalformed => (pc = "done" /\ resp.status = 400 /\ resp.code = "INVALID_AUTHOR_ID" /\ resp.message = "author_id must be a valid UUID")
    /\ (~AuthorIDMalformed /\ MalformedDate(raw.published_after) /\ MalformedDate(raw.published_before)) =>
         (pc = "done" /\ resp.status = 400 /\ resp.code = "INVALID_PUBLISHED_AFTER" /\ resp.message = "published_after must be in format YYYY-MM-DD")

\* all three filters were malformed and the author_id was the one named
C28_Witness ==
  /\ pc = "done"
  /\ AuthorIDMalformed /\ MalformedDate(raw.published_after) /\ MalformedDate(raw.published_before)
  /\ resp.code = "INVALID_AUTHOR_ID"

(***************************************************************************)
(* The failures of POST /books and the store, checked under SpecBooks.     *)
(***************************************************************************)
\* the steps of CreateBook: the insert succeeded; the read of the created
\* book failed; the request ended at the insert
InsertSucceeded == pc = "idle" /\ pc' = "fetch"

FetchFailed == pc = "fetch" /\ pc' = "done" /\ repoErr' # NoError

EndedAtInsert == pc = "idle" /\ pc' = "done" /\ req'.route = "POST /books"

\* C30: when repo.Create succeeded and the FindByID after it fails,
\* CreateBook answers 500 BOOK_FETCH_FAILED and the book it inserted stays
\* stored, so an error response of CreateBook does not say that the store
\* is unchanged; the answers BOOK_CREATE_FAILED and AUTHOR_NOT_FOUND do
C30_FetchFailureKeepsCreatedBook ==
  [][/\ InsertSucceeded => (book' \in books' /\ book' \notin books)
     /\ FetchFailed => (resp'.status = 500 /\ resp'.code = "BOOK_FETCH_FAILED" /\ books' = books /\ nextID' = nextID)
     /\ (EndedAtInsert /\ resp'.code \in {"BOOK_CREATE_FAILED", "AUTHOR_NOT_FOUND"}) => (books' = books /\ nextID' = nextID /\ authors' = authors)]_vars

\* CreateBook has answered 500 BOOK_FETCH_FAILED and the book it created
\* is stored
C30_Witness ==
  /\ pc = "done"
  /\ req.route = "POST /books"
  /\ resp.status = 500 /\ resp.code = "BOOK_FETCH_FAILED"
  /\ repoErr \in StorageErrors
  /\ book \in books

(***************************************************************************)
(* Properties of the authors and their books, checked under SpecAuthors.   *)
(***************************************************************************)
\* C22: in every reachable state, after any sequence of author and book
\* create, update and delete requests, the AuthorID of every stored book is
\* the id of a stored author; in particular the delete of an author leaves
\* no book behind that refers to it
C22_BooksReferToStoredAuthors == \A b \in books : \E a \in authors : b.AuthorID = a

\* the delete of an author that has a book was refused and the author and
\* the book are stored
C22_Witness ==
  /\ pc = "done"
  /\ req.route = "DELETE /authors/:id"
  /\ req.id = CanonicalText(AuthorA)
  /\ resp.status = 500 /\ resp.code = "AUTHOR_DELETE_FAILED"
  /\ AuthorA \in authors
  /\ \E b \in books : b.AuthorID = AuthorA

\* a 200 response of the route is in hand
Answered(route) == pc = "done" /\ req.route = route /\ resp.status = 200

\* C23: the books of an author are attached in the detail view (get by id)
\* only: every author of a ListAuthors response has no books attached,
\* while a GetAuthorByID response carries the books of the author
C23_ListedAuthorsCarryNoBooks ==
  /\ Answered("GET /authors") => \A i \in 1..Len(resp.data) : resp.data[i].books = {}
  /\ Answered("GET /authors/:id") => \A b \in books : (b.AuthorID = resp.data[1].id => \E s \in resp.data[1].books : s.id = b.ID)









====
